---- MODULE Spec2Model ----
(***************************************************************************)
(* Medical Diagnostic Bot: the background poll loop (background_worker),   *)
(* the lifespan controller, the HTTP handlers, the HMS connector and the   *)
(* analysis service.                                                       *)
(*                                                                         *)
(* asyncio is cooperative: the coroutines of the event loop interleave     *)
(* only at an await.  A worker that is between two awaits runs alone; the  *)
(* lifespan shutdown, manual_upload and the resumption of another          *)
(* coroutine happen only while every worker is suspended.                  *)
(*                                                                         *)
(* The worker is written against connector.fetch_pending_tasks /           *)
(* update_result and ai_service.analyze_file.  impl = "HMSConnector" is    *)
(* the code of src/ exactly (conn is never set, one mock task, nothing     *)
(* raises).  impl = "BaseConnector" stands for any other subclass of the   *)
(* abstract connector and an analysis backend whose calls may raise: the   *)
(* rows it returns are fixed at construction and each call either returns  *)
(* or raises an Exception, which is what the try/except of the loop is     *)
(* written for.                                                            *)
(***************************************************************************)
EXTENDS Integers, Sequences, FiniteSets, TLC

VARIABLES
    phase,           \* lifespan: "init" before startup, "running", "stopped"
    worker_running,  \* main.py global flag
    impl,            \* which connector / analyser implementation is plugged
    conn,            \* HMSConnector.conn
    rows,            \* pending rows of the record system (BaseConnector)
    pc,              \* position of each background_worker coroutine
    tasks,           \* local `tasks` of each worker
    idx,             \* position of the for loop in `tasks`
    result,          \* local `result` of each worker
    trace,           \* connector / analyser calls of the current poll cycle
    fetched,         \* outcome of the last fetch_pending_tasks call
    nFetch,          \* fetch_pending_tasks calls so far (saturating)
    nUpdate,         \* update_result calls so far (saturating)
    nConnect,        \* connect calls so far (saturating)
    inflightAtStop,  \* id of the task being analysed when shutdown arrived
    uploading,       \* file_type of the manual_upload awaiting analysis
    response,        \* last response of manual_upload
    queue_response   \* last response of get_queue

vars == <<phase, worker_running, impl, conn, rows, pc, tasks, idx, result,
          trace, fetched, nFetch, nUpdate, nConnect, inflightAtStop,
          uploading, response, queue_response>>

-----------------------------------------------------------------------------
(* Bounds *)

MaxBatch == 2      \* longest batch a BaseConnector returns
MaxCalls == 2      \* the call counters saturate here
MaxWorkers == 2    \* coroutine slots of the event loop

Workers == 1..MaxWorkers

-----------------------------------------------------------------------------
(* Data model *)

None == "None"
NoId == "none"

\* DiagnosticTask; metadata is passed through and never read.
DiagnosticTask(id, patient_id, file_path, file_type) ==
    [id |-> id, patient_id |-> patient_id, file_path |-> file_path,
     file_type |-> file_type, status |-> "PENDING"]

\* The mock row of the disconnected HMS connector.
MockTask ==
    DiagnosticTask("101", "P-505",
                   "C:/hospital_data/patient_505_chest_xray.jpg", "XRAY")

\* Rows another connector may hold: one of each interesting file_type.
TaskPool ==
    { MockTask,
      DiagnosticTask("102", "P-506", "report_506.pdf", "REPORT"),
      DiagnosticTask("103", "P-507", "ct_507.dcm", "CT") }

RECURSIVE SeqsNoDup(_, _)
SeqsNoDup(S, n) ==
    IF n = 0 THEN { <<>> }
    ELSE LET shorter == SeqsNoDup(S, n - 1)
         IN  shorter \cup
             { Append(s, e) : s \in { t \in shorter : Len(t) = n - 1 },
                              e \in S }

Range(s) == { s[i] : i \in 1..Len(s) }

\* Batches of distinct rows, at most MaxBatch long.
Batches ==
    { b \in SeqsNoDup(TaskPool, MaxBatch) :
        \A i, j \in 1..Len(b) : i # j => b[i].id # b[j].id }

\* file_type tags a caller may send to /upload.
Tags == { "XRAY", "REPORT", "CT", "ECG", "UNKNOWN", "xray" }

-----------------------------------------------------------------------------
(* Analysis service *)

\* analyze_file with `else` in place of `elif file_type == "REPORT"`.
analyze_file_else(file_path, file_type) ==
    IF file_type = "XRAY" THEN
        [summary |-> "Cardiomegaly not detected. Lungs appear clear.",
         abnormalities |-> <<"None">>,
         confidence |-> 98,
         urgency |-> "LOW"]
    ELSE
        [summary |-> "Hemoglobin levels slightly low.",
         abnormalities |-> <<"Anemia (Mild)">>,
         confidence |-> 95,
         urgency |-> "MEDIUM"]

\* analyze_file with the REPORT confidence written as a percentage (95.0).
analyze_file_percent(file_path, file_type) ==
    IF file_type = "XRAY" THEN
        [summary |-> "Cardiomegaly not detected. Lungs appear clear.",
         abnormalities |-> <<"None">>,
         confidence |-> 98,
         urgency |-> "LOW"]
    ELSE IF file_type = "REPORT" THEN
        [summary |-> "Hemoglobin levels slightly low.",
         abnormalities |-> <<"Anemia (Mild)">>,
         confidence |-> 9500,
         urgency |-> "MEDIUM"]
    ELSE [error |-> "Unknown file type"]

\* AIAnalyzer.analyze_file.  confidence is kept in hundredths (0.98 is 98).
analyze_file(file_path, file_type) ==
    IF file_type = "XRAY" THEN
        [summary |-> "Cardiomegaly not detected. Lungs appear clear.",
         abnormalities |-> <<"None">>,
         confidence |-> 98,
         urgency |-> "LOW"]
    ELSE IF file_type = "REPORT" THEN
        [summary |-> "Hemoglobin levels slightly low.",
         abnormalities |-> <<"Anemia (Mild)">>,
         confidence |-> 95,
         urgency |-> "MEDIUM"]
    ELSE [error |-> "Unknown file type"]

NoResult == [none |-> TRUE]

-----------------------------------------------------------------------------
(* HMS connector *)

\* HMSConnector.connect: the body is `pass`, conn keeps its value.
connect(c) == c

Returned(batch) == [outcome |-> "return", batch |-> batch]
Raised == [outcome |-> "raise", batch |-> << >>]
NotCalled == [outcome |-> "none", batch |-> << >>]

\* fetch_pending_tasks with id and patient_id of the mock row swapped.
fetch_pending_tasks_swapped(c) ==
    IF c = None
    THEN Returned(<< DiagnosticTask("P-505", "101", MockTask.file_path, "XRAY") >>)
    ELSE Returned(<< >>)

\* fetch_pending_tasks without the `if not self.conn` branch: cursor() is
\* called on None.
fetch_pending_tasks_unguarded(c) ==
    IF c = None THEN Raised ELSE Returned(<< >>)

\* HMSConnector.fetch_pending_tasks: the mock row while conn is unset, else
\* the (empty) list the commented-out query leaves.
fetch_pending_tasks(c) ==
    IF c = None THEN Returned(<< MockTask >>) ELSE Returned(<< >>)

\* update_result inserting a row at each call instead of overwriting: the
\* connector state counts the rows written.
update_result_appends(c, task_id, findings) ==
    IF c = None THEN "1 row" ELSE IF c = "1 row" THEN "2 rows" ELSE c

\* update_result opening the connection it writes through.
update_result_opens(c, task_id, findings) == "Connection"

\* HMSConnector.update_result: logs; the write is commented out, so the
\* connector is left as it was.
update_result(c, task_id, findings) == c

\* What a call of connector.fetch_pending_tasks() can produce.
FetchOutcomes ==
    IF impl = "HMSConnector"
    THEN { fetch_pending_tasks(conn) }
    ELSE { Returned(rows), Raised }

\* Whether a call of analyze_file / update_result returns or raises.
CallOutcomes ==
    IF impl = "HMSConnector" THEN { "return" } ELSE { "return", "raise" }

Saturate(n) == IF n < MaxCalls THEN n + 1 ELSE n

Event(op, id) == [op |-> op, id |-> id]

-----------------------------------------------------------------------------
(* Scheduling *)

Suspended == { "none", "warmup", "analyzing", "sleep", "cooldown", "done" }

\* No coroutine is between two awaits.
Idle == \A w \in Workers : pc[w] \in Suspended

\* lifespan creating the worker twice.
CreatedTasksTwice == { 1, 2 }

\* asyncio.create_task(background_worker()) in lifespan: one coroutine.
CreatedTasks == { 1 }

\* The batch walked back to front.
CurrentReversed(w) == tasks[w][Len(tasks[w]) + 1 - idx[w]]

\* `task` of `for task in tasks`: the list is walked front to back.
Current(w) == tasks[w][idx[w]]

-----------------------------------------------------------------------------
(* Initial state: module import of main.py *)

Init ==
    /\ phase = "init"
    /\ worker_running = FALSE
    /\ \/ impl = "HMSConnector" /\ rows = << >>
       \/ impl = "BaseConnector" /\ rows \in Batches
    /\ conn = None
    /\ pc = [w \in Workers |-> "none"]
    /\ tasks = [w \in Workers |-> << >>]
    /\ idx = [w \in Workers |-> 0]
    /\ result = [w \in Workers |-> NoResult]
    /\ trace = << >>
    /\ fetched = NotCalled
    /\ nFetch = 0
    /\ nUpdate = 0
    /\ nConnect = 0
    /\ inflightAtStop = NoId
    /\ uploading = None
    /\ response = NoResult
    /\ queue_response = NotCalled

-----------------------------------------------------------------------------
(* lifespan *)

\* lifespan, before the yield.
LifespanStartup ==
    /\ phase = "init"
    /\ phase' = "running"
    /\ worker_running' = TRUE
    /\ pc' = [w \in Workers |-> IF w \in CreatedTasks THEN "warmup" ELSE "none"]
    /\ UNCHANGED <<nConnect,
                   impl, conn, rows, tasks, idx, result, trace, fetched,
                   nFetch, nUpdate, inflightAtStop, uploading, response,
                   queue_response>>

\* The task a suspended worker is analysing, if any.
InFlight ==
    IF \E w \in Workers : pc[w] = "analyzing"
    THEN LET w == CHOOSE v \in Workers : pc[v] = "analyzing"
         IN  Current(w).id
    ELSE NoId

\* lifespan without `global worker_running`: the shutdown assigns a local.
LifespanShutdownLocal ==
    /\ phase = "running"
    /\ Idle
    /\ phase' = "stopped"
    /\ worker_running' = worker_running
    /\ inflightAtStop' = InFlight
    /\ UNCHANGED <<nConnect,
                   impl, conn, rows, pc, tasks, idx, result, trace, fetched,
                   nFetch, nUpdate, uploading, response, queue_response>>

\* lifespan, after the yield.
LifespanShutdown ==
    /\ phase = "running"
    /\ Idle
    /\ phase' = "stopped"
    /\ worker_running' = FALSE
    /\ inflightAtStop' = InFlight
    /\ UNCHANGED <<nConnect,
                   impl, conn, rows, pc, tasks, idx, result, trace, fetched,
                   nFetch, nUpdate, uploading, response, queue_response>>

-----------------------------------------------------------------------------
(* background_worker *)

\* await asyncio.sleep(2) returns.
Warmup(w) ==
    /\ pc[w] = "warmup"
    /\ Idle
    /\ pc' = [pc EXCEPT ![w] = "connect"]
    /\ UNCHANGED <<nConnect,
                   phase, worker_running, impl, conn, rows, tasks, idx,
                   result, trace, fetched, nFetch, nUpdate, inflightAtStop,
                   uploading, response, queue_response>>

\* connector.connect(), once, before the loop.
Connect(w) ==
    /\ pc[w] = "connect"
    /\ conn' = connect(conn)
    /\ nConnect' = Saturate(nConnect)
    /\ pc' = [pc EXCEPT ![w] = "while"]
    /\ UNCHANGED <<phase, worker_running, impl, rows, tasks, idx, result,
                   trace, fetched, nFetch, nUpdate, inflightAtStop,
                   uploading, response, queue_response>>

\* `while True:` in place of `while worker_running:`.
WhileTrue(w) ==
    /\ pc[w] = "while"
    /\ pc' = [pc EXCEPT ![w] = "fetch"]
    /\ UNCHANGED <<nConnect,
                   phase, worker_running, impl, conn, rows, tasks, idx,
                   result, trace, fetched, nFetch, nUpdate, inflightAtStop,
                   uploading, response, queue_response>>

\* while worker_running:
While(w) ==
    /\ pc[w] = "while"
    /\ pc' = [pc EXCEPT ![w] = IF worker_running THEN "fetch" ELSE "done"]
    /\ UNCHANGED <<nConnect,
                   phase, worker_running, impl, conn, rows, tasks, idx,
                   result, trace, fetched, nFetch, nUpdate, inflightAtStop,
                   uploading, response, queue_response>>

\* tasks = connector.fetch_pending_tasks(), inside the try.
Fetch(w) ==
    /\ pc[w] = "fetch"
    /\ \E o \in FetchOutcomes :
         /\ fetched' = o
         /\ nFetch' = Saturate(nFetch)
         /\ IF o.outcome = "return"
            THEN /\ tasks' = [tasks EXCEPT ![w] = o.batch]
                 /\ idx' = [idx EXCEPT ![w] = 1]
                 /\ trace' = << >>
                 /\ pc' = [pc EXCEPT ![w] = "for"]
            ELSE /\ trace' = << Event("raise_fetch", NoId) >>
                 /\ pc' = [pc EXCEPT ![w] = "except"]
                 /\ UNCHANGED <<tasks, idx>>
    /\ UNCHANGED <<nConnect,
                   phase, worker_running, impl, conn, rows, result, nUpdate,
                   inflightAtStop, uploading, response, queue_response>>

\* The for loop without `if not worker_running: break`.
ForNoBreak(w) ==
    /\ pc[w] = "for"
    /\ IF idx[w] > Len(tasks[w])
       THEN /\ pc' = [pc EXCEPT ![w] = "sleep"]
            /\ UNCHANGED trace
       ELSE /\ pc' = [pc EXCEPT ![w] = "analyzing"]
            /\ trace' = Append(trace, Event("analyze", Current(w).id))
    /\ UNCHANGED <<nConnect,
                   phase, worker_running, impl, conn, rows, tasks, idx,
                   result, fetched, nFetch, nUpdate, inflightAtStop,
                   uploading, response, queue_response>>

\* for task in tasks: if not worker_running: break; then the call of
\* ai_service.analyze_file, which suspends the worker.
For(w) ==
    /\ pc[w] = "for"
    /\ IF idx[w] > Len(tasks[w]) \/ ~worker_running
       THEN /\ pc' = [pc EXCEPT ![w] = "sleep"]
            /\ UNCHANGED trace
       ELSE /\ pc' = [pc EXCEPT ![w] = "analyzing"]
            /\ trace' = Append(trace, Event("analyze", Current(w).id))
    /\ UNCHANGED <<nConnect,
                   phase, worker_running, impl, conn, rows, tasks, idx,
                   result, fetched, nFetch, nUpdate, inflightAtStop,
                   uploading, response, queue_response>>

\* A loop that treats declined findings as a failure of the task.
AnalyzeReturnRejects(w) ==
    /\ pc[w] = "analyzing"
    /\ Idle
    /\ LET task == Current(w) IN
       \E o \in CallOutcomes :
         IF o = "return"
         THEN /\ result' = [result EXCEPT
                              ![w] = analyze_file(task.file_path, task.file_type)]
              /\ trace' = Append(trace, Event("result", task.id))
              /\ pc' = [pc EXCEPT
                          ![w] = IF "error" \in DOMAIN result'[w]
                                 THEN "except" ELSE "update"]
         ELSE /\ trace' = Append(trace, Event("raise_analyze", task.id))
              /\ pc' = [pc EXCEPT ![w] = "except"]
              /\ UNCHANGED result
    /\ UNCHANGED <<nConnect,
                   phase, worker_running, impl, conn, rows, tasks, idx,
                   fetched, nFetch, nUpdate, inflightAtStop, uploading,
                   response, queue_response>>

\* result = await ai_service.analyze_file(task.file_path, task.file_type)
AnalyzeReturn(w) ==
    /\ pc[w] = "analyzing"
    /\ Idle
    /\ LET task == Current(w) IN
       \E o \in CallOutcomes :
         IF o = "return"
         THEN /\ result' = [result EXCEPT
                              ![w] = analyze_file(task.file_path, task.file_type)]
              /\ trace' = Append(trace, Event("result", task.id))
              /\ pc' = [pc EXCEPT ![w] = "update"]
         ELSE /\ trace' = Append(trace, Event("raise_analyze", task.id))
              /\ pc' = [pc EXCEPT ![w] = "except"]
              /\ UNCHANGED result
    /\ UNCHANGED <<nConnect,
                   phase, worker_running, impl, conn, rows, tasks, idx,
                   fetched, nFetch, nUpdate, inflightAtStop, uploading,
                   response, queue_response>>

\* A write-back that is tried again at once when it raises.
UpdateRetries(w) ==
    /\ pc[w] = "update"
    /\ LET task == Current(w) IN
       \E o \in CallOutcomes :
         /\ nUpdate' = Saturate(nUpdate)
         /\ IF o = "return"
            THEN /\ conn' = update_result(conn, task.id, result[w])
                 /\ trace' = Append(trace, Event("update", task.id))
                 /\ idx' = [idx EXCEPT ![w] = idx[w] + 1]
                 /\ pc' = [pc EXCEPT ![w] = "for"]
            ELSE /\ trace' = trace \o << Event("update", task.id),
                                         Event("raise_update", task.id) >>
                 /\ pc' = [pc EXCEPT ![w] = "update"]
                 /\ UNCHANGED <<conn, idx>>
    /\ UNCHANGED <<nConnect,
                   phase, worker_running, impl, rows, tasks, result, fetched,
                   nFetch, inflightAtStop, uploading, response,
                   queue_response>>

\* connector.update_result(task.id, result), then the next iteration.
Update(w) ==
    /\ pc[w] = "update"
    /\ LET task == Current(w) IN
       \E o \in CallOutcomes :
         /\ nUpdate' = Saturate(nUpdate)
         /\ IF o = "return"
            THEN /\ conn' = update_result(conn, task.id, result[w])
                 /\ trace' = Append(trace, Event("update", task.id))
                 /\ idx' = [idx EXCEPT ![w] = idx[w] + 1]
                 /\ pc' = [pc EXCEPT ![w] = "for"]
            ELSE /\ trace' = trace \o << Event("update", task.id),
                                         Event("raise_update", task.id) >>
                 /\ pc' = [pc EXCEPT ![w] = "except"]
                 /\ UNCHANGED <<conn, idx>>
    /\ UNCHANGED <<nConnect,
                   phase, worker_running, impl, rows, tasks, result, fetched,
                   nFetch, inflightAtStop, uploading, response,
                   queue_response>>

\* await asyncio.sleep(10) at the end of the try returns.
Sleep(w) ==
    /\ pc[w] = "sleep"
    /\ Idle
    /\ pc' = [pc EXCEPT ![w] = "while"]
    /\ UNCHANGED <<nConnect,
                   phase, worker_running, impl, conn, rows, tasks, idx,
                   result, trace, fetched, nFetch, nUpdate, inflightAtStop,
                   uploading, response, queue_response>>

\* An except clause that logs and returns.
ExceptReturns == "done"

\* Where the except clause leaves the worker: logging, then the sleep.
ExceptTarget == "cooldown"

\* except Exception as e: logger.error(...); the cooldown sleep starts.
Except(w) ==
    /\ pc[w] = "except"
    /\ pc' = [pc EXCEPT ![w] = ExceptTarget]
    /\ UNCHANGED <<nConnect,
                   phase, worker_running, impl, conn, rows, tasks, idx,
                   result, trace, fetched, nFetch, nUpdate, inflightAtStop,
                   uploading, response, queue_response>>

\* await asyncio.sleep(10) of the except clause returns.
Cooldown(w) ==
    /\ pc[w] = "cooldown"
    /\ Idle
    /\ pc' = [pc EXCEPT ![w] = "while"]
    /\ UNCHANGED <<nConnect,
                   phase, worker_running, impl, conn, rows, tasks, idx,
                   result, trace, fetched, nFetch, nUpdate, inflightAtStop,
                   uploading, response, queue_response>>

WorkerStep(w) ==
    \/ Warmup(w)
    \/ Connect(w)
    \/ While(w)
    \/ Fetch(w)
    \/ For(w)
    \/ AnalyzeReturn(w)
    \/ Update(w)
    \/ Sleep(w)
    \/ Except(w)
    \/ Cooldown(w)

-----------------------------------------------------------------------------
(* HTTP handlers *)

\* manual_upload up to the await: the file is stored, the analysis starts.
UploadStart ==
    /\ phase = "running"
    /\ Idle
    /\ uploading = None
    /\ \E file_type \in Tags : uploading' = file_type
    /\ response' = NoResult
    /\ UNCHANGED <<nConnect,
                   phase, worker_running, impl, conn, rows, pc, tasks, idx,
                   result, trace, fetched, nFetch, nUpdate, inflightAtStop,
                   queue_response>>

\* manual_upload answering with status "error" when the analysis declined.
UploadReturnStrict ==
    /\ uploading # None
    /\ Idle
    /\ LET analysis == analyze_file("uploaded_files", uploading) IN
       response' = [status |-> IF "error" \in DOMAIN analysis
                               THEN "error" ELSE "success",
                    file_type |-> uploading,
                    analysis |-> analysis]
    /\ uploading' = None
    /\ UNCHANGED <<nConnect,
                   phase, worker_running, impl, conn, rows, pc, tasks, idx,
                   result, trace, fetched, nFetch, nUpdate, inflightAtStop,
                   queue_response>>

\* manual_upload saving its result through connector.update_result.
UploadReturnSaves ==
    /\ uploading # None
    /\ Idle
    /\ response' = [status |-> "success",
                    file_type |-> uploading,
                    analysis |-> analyze_file("uploaded_files", uploading)]
    /\ uploading' = None
    /\ nUpdate' = Saturate(nUpdate)
    /\ trace' = Append(trace, Event("update", "upload"))
    /\ UNCHANGED <<nConnect,
                   phase, worker_running, impl, conn, rows, pc, tasks, idx,
                   result, fetched, nFetch, inflightAtStop, queue_response>>

\* manual_upload after the await: the response.
UploadReturn ==
    /\ uploading # None
    /\ Idle
    /\ response' = [status |-> "success",
                    file_type |-> uploading,
                    analysis |-> analyze_file("uploaded_files", uploading)]
    /\ uploading' = None
    /\ UNCHANGED <<nConnect,
                   phase, worker_running, impl, conn, rows, pc, tasks, idx,
                   result, trace, fetched, nFetch, nUpdate, inflightAtStop,
                   queue_response>>

\* get_queue opening the connection before it fetches.
GetQueueConnects ==
    /\ phase = "running"
    /\ conn' = "Connection"
    /\ fetched' = fetch_pending_tasks(conn')
    /\ queue_response' = fetched'
    /\ nFetch' = Saturate(nFetch)
    /\ UNCHANGED <<nConnect,
                   phase, worker_running, impl, rows, pc, tasks, idx, result,
                   trace, nUpdate, inflightAtStop, uploading, response>>

\* get_queue: a sync handler, run on a thread of the pool.
GetQueue ==
    /\ phase = "running"
    /\ \E o \in FetchOutcomes :
         /\ fetched' = o
         /\ queue_response' = o
    /\ nFetch' = Saturate(nFetch)
    /\ UNCHANGED <<nConnect,
                   phase, worker_running, impl, conn, rows, pc, tasks, idx,
                   result, trace, nUpdate, inflightAtStop, uploading,
                   response>>

-----------------------------------------------------------------------------

Next ==
    \/ LifespanStartup
    \/ LifespanShutdown
    \/ \E w \in Workers : WorkerStep(w)
    \/ UploadStart
    \/ UploadReturn
    \/ GetQueue

Spec == Init /\ [][Next]_vars

\* The event loop resumes a coroutine whose sleep or awaited call is over,
\* and a running coroutine runs to its next await.
FairSpec == Spec /\ \A w \in Workers : WF_vars(WorkerStep(w))

TypeOK ==
    /\ phase \in { "init", "running", "stopped" }
    /\ worker_running \in BOOLEAN
    /\ impl \in { "HMSConnector", "BaseConnector" }
    /\ conn = None
    /\ rows \in Batches
    /\ \A w \in Workers : idx[w] \in 0..(Len(tasks[w]) + 1)
    /\ nFetch \in 0..MaxCalls
    /\ nUpdate \in 0..MaxCalls
    /\ nConnect \in 0..MaxCalls
    /\ uploading \in Tags \cup { None }

-----------------------------------------------------------------------------
(* Helpers of the properties *)

Happened(op, id) == Event(op, id) \in Range(trace)

\* Task k of the batch of worker w raised in analysis or in write-back.
RaisedAt(w, k) ==
    \/ Happened("raise_analyze", tasks[w][k].id)
    \/ Happened("raise_update", tasks[w][k].id)

RECURSIVE ExpectedTrace(_)
\* analyze, result, update of each task, in the order of the batch.
ExpectedTrace(b) ==
    IF b = << >> THEN << >>
    ELSE << Event("analyze", Head(b).id), Event("result", Head(b).id),
            Event("update", Head(b).id) >> \o ExpectedTrace(Tail(b))

IsPrefix(s, t) ==
    /\ Len(s) <= Len(t)
    /\ \A i \in 1..Len(s) : s[i] = t[i]

IsRaise(e) == e.op \in { "raise_fetch", "raise_analyze", "raise_update" }

\* The calls of the cycle, without the trailing raise marker.
Calls == SelectSeq(trace, LAMBDA e : ~IsRaise(e))

InCycle == { "fetch", "for", "analyzing", "update" }

-----------------------------------------------------------------------------
(* C1 *)

\* C1: failure isolation.  When a poll cycle has ended in the except clause
\* because analysis or write-back of task K of the batch raised, and no
\* shutdown was signalled, every other task of the batch was analysed and
\* had update_result attempted in that cycle.
C1_FailureIsolation ==
    \A w \in Workers : \A k \in 1..Len(tasks[w]) :
        (pc[w] = "cooldown" /\ phase = "running" /\ RaisedAt(w, k))
        => \A j \in (1..Len(tasks[w])) \ { k } :
              /\ Happened("analyze", tasks[w][j].id)
              /\ Happened("update", tasks[w][j].id)

-----------------------------------------------------------------------------
(* C2 *)

\* C2: shutdown mid-cycle.  The worker never stands before a call of
\* fetch_pending_tasks once the shutdown was signalled; and when the signal
\* arrived while a task was being analysed, the worker has called
\* update_result for that task by the time it has left the loop (with the
\* analyser of the repository always; with one that may raise, whenever the
\* analysis returned).
C2_ShutdownMidCycle ==
    \A w \in Workers :
        /\ phase = "stopped" => pc[w] # "fetch"
        /\ (pc[w] = "done" /\ inflightAtStop # NoId)
           => /\ Happened("result", inflightAtStop)
                 => Happened("update", inflightAtStop)
              /\ impl = "HMSConnector" => Happened("update", inflightAtStop)

C2_Witness ==
    /\ pc[1] = "done"
    /\ inflightAtStop # NoId
    /\ Happened("update", inflightAtStop)

-----------------------------------------------------------------------------
(* C3 *)

\* C3: no error terminates the poll loop.  The worker leaves the loop only
\* when worker_running is false, and from the except clause (reached when
\* fetch, analysis or write-back raised) it comes back to a call of
\* fetch_pending_tasks unless worker_running has become false.
C3_NoErrorTerminates ==
    /\ [][\A w \in Workers :
            (pc[w] # "done" /\ pc'[w] = "done") => ~worker_running]_vars
    /\ \A w \in CreatedTasks :
         (pc[w] = "except") ~> (pc[w] = "fetch" \/ ~worker_running)

C3_Witness ==
    /\ pc[1] = "fetch"
    /\ \E i \in 1..Len(trace) : IsRaise(trace[i])

-----------------------------------------------------------------------------
(* C4 *)

\* C4: per-cycle event order.  The calls of a cycle are a prefix of
\* analyze(t1), result(t1), update(t1), analyze(t2), ... over the batch in
\* the order fetch_pending_tasks returned it.
C4_CycleOrder ==
    \A w \in Workers :
        pc[w] \notin { "none", "warmup", "connect" }
        => IsPrefix(Calls, ExpectedTrace(tasks[w]))

C4_Witness ==
    /\ Len(tasks[1]) = 2
    /\ trace = ExpectedTrace(tasks[1])
    /\ pc[1] = "sleep"

-----------------------------------------------------------------------------
(* C5 *)

\* C5: single active cycle.  Before startup there is no worker, after it
\* exactly one, and at most one worker is in the fetch / dispatch phase.
C5_SingleCycle ==
    /\ phase = "init" => \A w \in Workers : pc[w] = "none"
    /\ phase # "init" => Cardinality({ w \in Workers : pc[w] # "none" }) = 1
    /\ Cardinality({ w \in Workers : pc[w] \in InCycle }) <= 1

C5_Witness ==
    /\ phase = "running"
    /\ pc[1] = "analyzing"
    /\ idx[1] = 2

-----------------------------------------------------------------------------
(* C6 *)

\* C6: status lifecycle.  A task whose analysis is in flight has status
\* IN_PROGRESS, and a task the loop is done with has status COMPLETED or
\* FAILED.
C6_StatusLifecycle ==
    \A w \in Workers :
        /\ pc[w] = "analyzing" => Current(w).status = "IN_PROGRESS"
        /\ pc[w] \in { "for", "sleep" }
           => \A i \in 1..Len(tasks[w]) :
                 i < idx[w] => tasks[w][i].status \in { "COMPLETED", "FAILED" }

-----------------------------------------------------------------------------
(* C7 *)

TheMockBatch(b) ==
    /\ Len(b) = 1
    /\ b[1].id = "101"
    /\ b[1].patient_id = "P-505"
    /\ b[1].file_type = "XRAY"
    /\ b[1].status = "PENDING"

\* C7: every call of fetch_pending_tasks on the HMS connector with conn
\* unset, by the worker or by get_queue and after any number of earlier
\* fetch and update_result calls, returns the one task 101 / P-505 / XRAY /
\* PENDING.
C7_MockBatch ==
    (impl = "HMSConnector" /\ conn = None)
    => /\ fetched # NotCalled
          => fetched.outcome = "return" /\ TheMockBatch(fetched.batch)
       /\ queue_response # NotCalled
          => queue_response.outcome = "return"
             /\ TheMockBatch(queue_response.batch)
       /\ \A w \in Workers :
            pc[w] \in { "for", "analyzing", "update", "sleep" }
            => TheMockBatch(tasks[w])

C7_Witness ==
    /\ impl = "HMSConnector"
    /\ conn = None
    /\ nFetch >= 2
    /\ nUpdate >= 1
    /\ pc[1] = "for"
    /\ queue_response # NotCalled

-----------------------------------------------------------------------------
(* C8 *)

\* C8 as stated: a call of fetch_pending_tasks on the HMS connector that is
\* not connected returns an empty sequence and no error.
C8_EmptyWhenDisconnected ==
    (impl = "HMSConnector" /\ conn = None /\ fetched # NotCalled)
    => fetched = Returned(<< >>)

\* C8 as amended: a call of fetch_pending_tasks on the HMS connector that
\* is not connected reports no error, and the sequence it returns is not
\* empty: it holds one task.
C8_NoErrorWhenDisconnected ==
    (impl = "HMSConnector" /\ conn = None)
    => /\ fetched.outcome # "raise" /\ queue_response.outcome # "raise"
       /\ fetched # NotCalled => Len(fetched.batch) = 1
       /\ \A w \in Workers : pc[w] # "except"

C8_Witness ==
    /\ impl = "HMSConnector"
    /\ conn = None
    /\ fetched.outcome = "return"
    /\ fetched.batch # << >>
    /\ pc[1] = "analyzing"

-----------------------------------------------------------------------------
(* C9 *)

Recognised == { "XRAY", "REPORT" }

\* The analyses on record: the response of the last manual upload and the
\* result a worker holds between analysis and write-back.
Analysed ==
    (IF response # NoResult
     THEN { <<response.file_type, response.analysis>> }
     ELSE { })
    \cup { <<Current(w).file_type, result[w]>> :
             w \in { v \in Workers : pc[v] = "update" } }

-----------------------------------------------------------------------------
(* C10 *)

\* C10: for XRAY and REPORT the analysis holds summary, abnormalities,
\* confidence and urgency, the confidence is in [0,1] (0..100 hundredths),
\* the urgency is LOW, MEDIUM or HIGH, and there is no error marker.
C10_Findings ==
    \A a \in Analysed :
        a[1] \in Recognised
        => /\ { "summary", "abnormalities", "confidence", "urgency" }
                 \subseteq DOMAIN a[2]
           /\ "error" \notin DOMAIN a[2]
           /\ a[2].confidence \in 0..100
           /\ a[2].urgency \in { "LOW", "MEDIUM", "HIGH" }

C10_Witness ==
    /\ response # NoResult
    /\ response.file_type = "REPORT"
    /\ pc[1] = "update"
    /\ Current(1).file_type = "XRAY"
    /\ result[1].urgency = "LOW"

-----------------------------------------------------------------------------
(* C11 *)

\* C11: every response of manual_upload has status "success"; its analysis
\* is the error payload for a tag outside {XRAY, REPORT}, and for XRAY the
\* findings with abnormalities ["None"], confidence 0.98 and urgency LOW.
C11_ManualUpload ==
    response # NoResult
    => /\ response.status = "success"
       /\ response.file_type \notin Recognised
          => DOMAIN response.analysis = { "error" }
       /\ response.file_type = "XRAY"
          => /\ response.analysis.abnormalities = << "None" >>
             /\ response.analysis.confidence = 98
             /\ response.analysis.urgency = "LOW"
             /\ "error" \notin DOMAIN response.analysis

C11_Witness ==
    /\ response # NoResult
    /\ response.file_type = "XRAY"
    /\ response.status = "success"
    /\ response.analysis.confidence = 98
    /\ pc[1] = "analyzing"

-----------------------------------------------------------------------------
(* C12 *)

\* The update_result calls of the current cycle.
UpdateCalls == SelectSeq(trace, LAMBDA e : e.op = "update")

\* A step of manual_upload or get_queue.
HandlerStep ==
    \/ uploading' # uploading
    \/ response' # response
    \/ queue_response' # queue_response

\* C12: the poll loop is the only caller of update_result.  A step of
\* manual_upload or get_queue calls no update_result and leaves the batch,
\* the position and the result of every worker as they were; the calls on
\* record grow only by the call of a worker that stands at its write-back.
C12_OnlyCaller ==
    [][ /\ HandlerStep
           => UNCHANGED <<nUpdate, trace, tasks, idx, result, pc>>
        /\ nUpdate' # nUpdate
           => \E w \in Workers : pc[w] = "update" /\ pc'[w] # "update"
        /\ (UpdateCalls' # UpdateCalls /\ UpdateCalls' # << >>)
           => \E w \in Workers :
                 /\ pc[w] = "update"
                 /\ UpdateCalls' =
                       Append(UpdateCalls, Event("update", Current(w).id))
      ]_vars

C12_Witness ==
    /\ pc[1] = "analyzing"
    /\ idx[1] = 2
    /\ Len(UpdateCalls) = 1
    /\ uploading # None
    /\ queue_response # NotCalled

-----------------------------------------------------------------------------
(* C13 *)

\* C13: get_queue is read-only.  A step that changes the response of
\* get_queue leaves the connector, the rows, every batch and status, the
\* workers and the worker_running flag unchanged, and the response is the
\* outcome of fetch_pending_tasks on that unchanged connector.
C13_QueueReadOnly ==
    [][ queue_response' # queue_response
        => /\ UNCHANGED <<conn, rows, tasks, idx, result, pc,
                          worker_running, phase, trace, nUpdate>>
           /\ queue_response' \in FetchOutcomes
           /\ queue_response' = fetched'
      ]_vars

C13_Witness ==
    /\ queue_response = Returned(rows)
    /\ Len(rows) = 2
    /\ pc[1] = "update"
    /\ worker_running

-----------------------------------------------------------------------------
(* C14 *)

\* A worker completes a call of update_result.
UpdateReturns(w) == pc[w] = "update" /\ pc'[w] = "for"

\* C14: update_result is idempotent.  When every write-back is for the same
\* task with the same findings (the mock batch, or a one-row batch), a call
\* of update_result after the first leaves the connector and the rows as
\* the first call left them.
C14_Idempotent ==
    [][ \A w \in Workers :
          ( /\ UpdateReturns(w)
            /\ nUpdate >= 1
            /\ impl = "HMSConnector" \/ Len(rows) = 1 )
          => conn' = conn /\ rows' = rows
      ]_vars

C14_Witness ==
    /\ nUpdate >= 2
    /\ impl = "HMSConnector"
    /\ conn = None
    /\ pc[1] = "sleep"
    /\ UpdateCalls = << Event("update", "101") >>

-----------------------------------------------------------------------------
(* C15 *)

Count(op, id) ==
    Cardinality({ i \in 1..Len(trace) : trace[i] = Event(op, id) })

Ids == { t.id : t \in TaskPool }

\* C15: no retry within a cycle.  In the calls of one cycle each task is
\* analysed at most once and written back at most once, and a write-back
\* comes after the return of the analysis of the same task.
C15_NoRetry ==
    \A id \in Ids :
        /\ Count("analyze", id) <= 1
        /\ Count("update", id) <= 1
        /\ \A i \in 1..Len(trace) :
              trace[i] = Event("update", id)
              => \E j \in 1..(i - 1) : trace[j] = Event("result", id)

C15_Witness ==
    /\ pc[1] = "cooldown"
    /\ Happened("update", "101")
    /\ Happened("raise_update", "102")
    /\ Count("analyze", "101") = 1

-----------------------------------------------------------------------------
(* C16 *)

\* The events a step adds to the trace of the cycle.
Added == { i \in 1..Len(trace') : i > Len(trace) }

\* C16: after the shutdown signal no analysis is started.  Once the flag is
\* false no worker enters an analysis, and what is still recorded (result,
\* write-back or raise) belongs to the task that was in flight when the
\* signal arrived.
C16_NoNewAnalysis ==
    [][ phase = "stopped"
        => /\ \A w \in Workers : pc'[w] = "analyzing" => pc[w] = "analyzing"
           /\ Len(trace') >= Len(trace)
           /\ \A i \in Added :
                 /\ trace'[i].op # "analyze"
                 /\ trace'[i].id = inflightAtStop
      ]_vars

C16_Witness ==
    /\ phase = "stopped"
    /\ pc[1] = "done"
    /\ Len(tasks[1]) = 2
    /\ idx[1] = 2
    /\ inflightAtStop = tasks[1][1].id
    /\ Happened("update", tasks[1][1].id)
    /\ ~Happened("analyze", tasks[1][2].id)

-----------------------------------------------------------------------------
(* C17 *)

\* C17: a connection failure is retried.  A worker that starts a second or
\* later poll cycle with the connector still disconnected has called
\* connect more than once.
C17_ConnectRetried ==
    \A w \in Workers :
        (pc[w] = "fetch" /\ conn = None /\ (idx[w] >= 1 \/ trace # << >>))
        => nConnect >= 2

-----------------------------------------------------------------------------
(* C18 *)

Declined == [error |-> "Unknown file type"]

\* C18: declined analysis is still written back.  Once the analysis of a
\* task of unrecognised kind has returned, the worker either stands at the
\* write-back of that task holding the error findings, or has called
\* update_result for it.
C18_DeclinedWrittenBack ==
    \A w \in Workers : \A i \in 1..Len(tasks[w]) :
        ( /\ tasks[w][i].file_type \notin Recognised
          /\ Happened("result", tasks[w][i].id) )
        => \/ pc[w] = "update" /\ idx[w] = i /\ result[w] = Declined
           \/ Happened("update", tasks[w][i].id)

C18_Witness ==
    /\ pc[1] = "analyzing"
    /\ idx[1] = 2
    /\ tasks[1][1].file_type = "CT"
    /\ result[1] = Declined
    /\ Happened("update", "103")

-----------------------------------------------------------------------------
(* C19 *)

\* C19: no deduplication across cycles.  With the disconnected HMS
\* connector, the worker that lifespan created reaches, from its warm-up
\* and again from the sleep that ends each poll cycle, the write-back of
\* task 101 (analysed once more), unless worker_running has become false.
C19_Reprocessed ==
    \A w \in CreatedTasks :
        (impl = "HMSConnector" /\ pc[w] \in { "warmup", "sleep" })
        ~> (~worker_running \/ (pc[w] = "update" /\ Current(w).id = "101"))

C19_Witness ==
    /\ impl = "HMSConnector"
    /\ worker_running
    /\ nUpdate >= 2
    /\ nFetch >= 2
    /\ pc[1] = "update"
    /\ Current(1).id = "101"

-----------------------------------------------------------------------------
(* C20 *)

\* C20: worker termination.  Once the shutdown was signalled every worker
\* reaches the end of background_worker, and after the signal the only
\* update_result call is at most one call for the task that was in flight.
C20_Termination ==
    /\ (phase = "stopped") ~> (\A w \in Workers : pc[w] \in { "none", "done" })
    /\ [][ (phase = "stopped" /\ UpdateCalls' # UpdateCalls)
           => /\ ~Happened("update", inflightAtStop)
              /\ UpdateCalls' =
                    Append(UpdateCalls, Event("update", inflightAtStop))
         ]_vars

C20_Witness ==
    /\ phase = "stopped"
    /\ pc[1] = "done"
    /\ inflightAtStop = "102"
    /\ Happened("result", "102")
    /\ UpdateCalls = << Event("update", "101"), Event("update", "102") >>

====
